---- MODULE Spec2Model ----
(***************************************************************************)
(* boltstore: a gorilla/sessions store kept in a Bolt bucket (store.go).   *)
(* The model follows store.New, store.Save, store.Close, store.load,       *)
(* store.delete and store.save statement by statement.  One action is one  *)
(* exported call, which runs to completion in the calling goroutine; each  *)
(* call makes at most one Bolt transaction, so the interleavings of the    *)
(* actions are the interleavings of the transactions.  The variables saved *)
(* and last are history that no action reads; steps bounds the run.        *)
(***************************************************************************)
EXTENDS Integers, Sequences, FiniteSets, TLC

\* ------------------------------------------------------------------ bounds
MaxTime == 3       \* time.Now().Unix() runs over 1..MaxTime
NumVals == 1       \* encodable values a caller can store under a key
MaxAgeBound == 1   \* max-age values run over -1..MaxAgeBound
MaxSteps == 5      \* calls, caller steps and clock ticks in one run

\* ---------------------------------------------------------------- universe
IDs == {"A", "B"}          \* identifiers GenerateRandomKey produces in a run
EmptyID == ""              \* session.ID == ""
Slots == {"r1", "r2"}      \* requests in flight, each holding one session
NoSlot == "none"
ConfigRef == "&s.config.SessionOptions"
Refs == {ConfigRef}        \* addresses of sessions.Options objects
Unregistered == 0          \* a value whose type gob cannot encode
MaxAges == -1..MaxAgeBound
Vals == {Unregistered} \cup (1..NumVals)
KeyOrder == <<"uid">>
Keys == {KeyOrder[i] : i \in 1..Len(KeyOrder)}

\* session.Values: a map from keys to values
EmptyValues == [k \in {} |-> Unregistered]
ValueMaps == UNION {[S -> Vals] : S \in SUBSET Keys}

\* errors
ErrNil == "nil"
ErrDecode == "securecookie: the value is not valid"
ErrEncode == "securecookie: encode failed"
ErrGob == "gob: type not registered"
ErrProto == "proto: bad wire data"
ErrStore == "bolt: transaction failed"
ErrClosed == "bolt: database not open"
ErrPanic == "panic: nil pointer dereference"

\* what the environment does to one Bolt transaction: nothing, or it fails
\* Begin, the bucket write (Put, Delete), or Commit
Faults == {"none", "begin", "op", "commit"}

VARIABLES
    db,        \* the bucket: key -> stored bytes (NoData: no such key)
    opened,    \* the Bolt handle is open
    now,       \* time.Now().Unix()
    options,   \* the heap of sessions.Options objects: address -> MaxAge
    sess,      \* the session object of each request
    jar,       \* cookie values the store has handed out to clients
    saved,     \* history: the last Save call on each identifier
    last,      \* history: the call that made the last step, with what it returned
    steps      \* the number of steps taken

vars == <<db, opened, now, options, sess, jar, saved, last, steps>>

\* ------------------------------------------------------------------ codecs
\* bucket.Get returns nil for a missing key
NoData == << >>

\* gob: the map is written as its (key, value) pairs; a value of a type that
\* was not registered makes Encode fail
GobEncodable(values) == \A k \in DOMAIN values : values[k] # Unregistered

GobEncode(values) ==
    LET present == SelectSeq(KeyOrder, LAMBDA k : k \in DOMAIN values)
    IN  [i \in 1..Len(present) |-> <<present[i], values[present[i]]>>]

\* dec.Decode(&session.Values): the decoded pairs are stored into the map
GobDecode(bytes, into) ==
    LET ks == {bytes[i][1] : i \in 1..Len(bytes)}
        at(k) == CHOOSE i \in 1..Len(bytes) : bytes[i][1] = k
    IN  [k \in ks \cup DOMAIN into |-> IF k \in ks THEN bytes[at(k)][2] ELSE into[k]]

\* NewSession(values, maxAge): the wire record (Session message) of a save
NewSession(values, maxAge) ==
    [Values |-> values, ExpiresAt |-> IF maxAge > 0 THEN now + maxAge ELSE 0]

\* proto.Marshal / proto.Unmarshal of the Session message: two fields, in
\* field order
ProtoMarshal(sessionData) == <<sessionData.Values, sessionData.ExpiresAt>>

\* a message without its second field unmarshals with a nil ExpiresAt
NilExpiresAt == -1

ProtoWellFormed(data) == Len(data) \in {1, 2}

ProtoUnmarshal(data) ==
    [Values |-> data[1], ExpiresAt |-> IF Len(data) = 2 THEN data[2] ELSE NilExpiresAt]

\* securecookie.EncodeMulti / DecodeMulti: the identifier with its MAC
NoCookie == [id |-> EmptyID, mac |-> "absent"]

SecureEncode(id) == [id |-> id, mac |-> "valid"]

Tampered(id) == [id |-> id, mac |-> "forged"]

\* a faulty variant of SecureDecodes: the MAC is not verified
SecureDecodesAny(c) == c.mac \in {"valid", "forged"}

SecureDecodes(c) == c.mac = "valid"

\* sessions.NewCookie(name, value, options) as set on the response
NoSetCookie == [set |-> FALSE, value |-> NoCookie, MaxAge |-> 0]

NewCookie(value, maxAge) == [set |-> TRUE, value |-> value, MaxAge |-> maxAge]

\* ------------------------------------------------------------------- state
\* sessions.NewSession(s, name) with lines 37-38 applied; touched is history:
\* the caller of this session has written to its Options
NoSession == [live |-> FALSE, ID |-> EmptyID, IsNew |-> TRUE,
              Values |-> EmptyValues, Options |-> ConfigRef, touched |-> FALSE,
              err |-> ErrNil]

\* history of the last Save on an identifier: kind "ok" is a Save of the
\* persist path that returned nil, wrote says its put committed, until is the
\* last second of its max-age (0: max-age 0)
NoSave == [kind |-> "none", Values |-> EmptyValues, until |-> 0, wrote |-> FALSE]

\* history of the last call: what it was given (the session's identifier and
\* max-age, whether the cookie decoded), what it returned (err, cookie), which
\* of its steps failed, and the bytes under its key before it ran; mac is the
\* MAC of the request's cookie and get says the call came through store.Get
NoCall == [op |-> "none", slot |-> NoSlot, id |-> EmptyID, maxAge |-> 0,
           err |-> ErrNil, cookie |-> NoSetCookie, failed |-> "none",
           decoded |-> FALSE, before |-> NoData, mac |-> "absent", get |-> FALSE]

\* the Config given to New(config, keyPairs...) after config.setDefault()
ConfiguredMaxAge == MaxAgeBound

\* New(config, keyPairs...): the store after construction
Init ==
    /\ db = [i \in IDs |-> NoData]
    /\ opened = TRUE
    /\ now = 1
    /\ options = [r \in Refs |-> ConfiguredMaxAge]
    /\ sess = [s \in Slots |-> NoSession]
    /\ jar = {}
    /\ saved = [i \in IDs |-> NoSave]
    /\ last = NoCall
    /\ steps = 0

\* ------------------------------------------------------------ transactions
\* s.db.Update(fn): fn is what the function did, [err, db]. A closed handle
\* and a failed begin never run fn; an error from fn, or a failed commit,
\* rolls back
Update(fault, fn) ==
    IF ~opened THEN [ran |-> FALSE, err |-> ErrClosed, db |-> db]
    ELSE IF fault = "begin" THEN [ran |-> FALSE, err |-> ErrStore, db |-> db]
    ELSE IF fn.err # ErrNil THEN [ran |-> TRUE, err |-> fn.err, db |-> db]
    ELSE IF fault = "commit" THEN [ran |-> TRUE, err |-> ErrStore, db |-> db]
    ELSE [ran |-> TRUE, err |-> ErrNil, db |-> fn.db]

\* bucket.Get / bucket.Put / bucket.Delete on the key []byte(session.ID)
BucketGet(id) == IF id \in IDs THEN db[id] ELSE NoData

\* a faulty variant of BucketPut: a key that holds a record is not overwritten
BucketPutIfAbsent(id, data) == IF db[id] = NoData THEN [db EXCEPT ![id] = data] ELSE db

BucketPut(id, data) == [db EXCEPT ![id] = data]

\* a faulty variant of BucketDelete: every key of the bucket is removed
BucketDeleteAll(id) == [i \in IDs |-> NoData]

BucketDelete(id) == IF id \in IDs THEN [db EXCEPT ![id] = NoData] ELSE db

\* a faulty variant of Expired: the test is late by one second
ExpiredLate(sessionData) ==
    sessionData.ExpiresAt > 0 /\ sessionData.ExpiresAt + 1 < now

\* a faulty variant of Expired: the test is early by one second
ExpiredEarly(sessionData) ==
    sessionData.ExpiresAt > 0 /\ sessionData.ExpiresAt <= now

\* the expiration test of load
Expired(sessionData) == sessionData.ExpiresAt > 0 /\ sessionData.ExpiresAt < now

GobWellFormed(bytes) ==
    \A i \in 1..Len(bytes) : Len(bytes[i]) = 2 /\ bytes[i][1] \in Keys

\* the pairs Decode reads before the first one it cannot decode
GobPrefix(bytes) ==
    LET good(i) == Len(bytes[i]) = 2 /\ bytes[i][1] \in Keys
        n == IF GobWellFormed(bytes) THEN Len(bytes)
             ELSE (CHOOSE i \in 1..Len(bytes) :
                      ~good(i) /\ \A j \in 1..(i - 1) : good(j)) - 1
    IN  SubSeq(bytes, 1, n)

\* the function load gives to Update
LoadFn(session, fault) ==
    LET data == BucketGet(session.ID)
        sessionData == ProtoUnmarshal(data)
        miss(e, d) == [err |-> e, db |-> d, exists |-> FALSE, Values |-> session.Values]
    IN  IF data = NoData THEN miss(ErrNil, db)
        ELSE IF ~ProtoWellFormed(data) THEN miss(ErrProto, db)
        \* line 117 dereferences sessionData.ExpiresAt
        ELSE IF sessionData.ExpiresAt = NilExpiresAt THEN miss(ErrPanic, db)
        ELSE IF Expired(sessionData)
             THEN IF fault = "op" THEN miss(ErrStore, db)
                  ELSE miss(ErrNil, BucketDelete(session.ID))
        ELSE IF ~GobWellFormed(sessionData.Values)
             \* Decode stores into session.Values as it goes: what it read
             \* before the error stays in the map
             THEN [err |-> ErrGob, db |-> db, exists |-> TRUE,
                   Values |-> GobDecode(GobPrefix(sessionData.Values), session.Values)]
        ELSE [err |-> ErrNil, db |-> db, exists |-> TRUE,
              Values |-> GobDecode(sessionData.Values, session.Values)]

\* store.load: (exists, err), the session's Values and the bucket after it
load(session, fault) ==
    LET fn == LoadFn(session, fault)
        tx == Update(fault, fn)
    IN  [exists |-> tx.ran /\ fn.exists, err |-> tx.err,
         Values |-> IF tx.ran THEN fn.Values ELSE session.Values, db |-> tx.db]

\* a faulty variant of delete: the transaction deletes nothing
deleteNothing(session, fault) ==
    LET tx == Update(fault, [err |-> ErrNil, db |-> db])
    IN  [err |-> tx.err, db |-> tx.db]

\* a faulty variant of delete: the record is overwritten with an empty one
\* that expires now instead of being removed
deleteSoft(session, fault) ==
    LET fn == [err |-> IF fault = "op" THEN ErrStore ELSE ErrNil,
               db |-> IF session.ID \in IDs
                      THEN BucketPut(session.ID,
                               ProtoMarshal([Values |-> GobEncode(EmptyValues), ExpiresAt |-> now]))
                      ELSE db]
        tx == Update(fault, fn)
    IN  [err |-> tx.err, db |-> tx.db]

\* store.delete
delete(session, fault) ==
    LET fn == [err |-> IF fault = "op" THEN ErrStore ELSE ErrNil,
               db |-> BucketDelete(session.ID)]
        tx == Update(fault, fn)
    IN  [err |-> tx.err, db |-> tx.db]

\* store.save: a failed proto.Marshal returns nil (line 151)
save(session, maxAge, fault, marshalOK) ==
    IF ~GobEncodable(session.Values)
    THEN [err |-> ErrGob, db |-> db, failed |-> "gob"]
    ELSE IF ~marshalOK
    THEN [err |-> ErrNil, db |-> db, failed |-> "marshal"]
    ELSE LET data == ProtoMarshal(NewSession(GobEncode(session.Values), maxAge))
             fn == [err |-> IF fault = "op" THEN ErrStore ELSE ErrNil,
                    db |-> BucketPut(session.ID, data)]
             tx == Update(fault, fn)
         IN  [err |-> tx.err, db |-> tx.db,
              failed |-> IF tx.err = ErrNil THEN "none" ELSE "put"]

\* ----------------------------------------------------------------- actions
\* identifiers GenerateRandomKey has not produced yet
Used ==
    {i \in IDs : db[i] # NoData}
        \cup {sess[s].ID : s \in Slots} \cup {c.id : c \in jar}

Unused == IDs \ Used

\* the cookie a request can carry: none, one the store handed out, or one
\* whose bytes were changed
RequestCookies == {NoCookie} \cup jar \cup {Tampered(c.id) : c \in jar}

\* the body of store.New(r, name) for the request in slot s carrying cookie
\* c; get says the registry of store.Get made the call. A panic in load
\* ends the request: no session is returned
storeNew(s, c, fault, get) ==
    /\ LET session == [NoSession EXCEPT !.live = TRUE]
           decoded == c # NoCookie /\ SecureDecodes(c)
           withID == [session EXCEPT !.ID = c.id]
           ld == load(withID, fault)
           panicked == decoded /\ ld.err = ErrPanic
           \* line 42 declares a new err: the load's error stays in the block
           err == IF c = NoCookie \/ decoded THEN ErrNil ELSE ErrDecode
       IN  /\ sess' = [sess EXCEPT ![s] =
                  IF panicked THEN NoSession
                  ELSE IF decoded
                  THEN [withID EXCEPT !.Values = ld.Values,
                                      !.IsNew = ~(ld.err = ErrNil /\ ld.exists)]
                  \* the registry keeps the error next to the session
                  ELSE [session EXCEPT !.err = IF get THEN err ELSE ErrNil]]
           /\ db' = IF decoded THEN ld.db ELSE db
           /\ last' = [NoCall EXCEPT !.op = "New", !.slot = s,
                          !.id = IF decoded THEN c.id ELSE EmptyID,
                          !.err = IF panicked THEN ErrPanic ELSE err,
                          !.decoded = decoded,
                          !.failed = IF ~decoded \/ ld.err = ErrNil THEN "none"
                                     ELSE IF ld.err \in {ErrStore, ErrClosed} THEN "load"
                                     ELSE IF panicked THEN "panic"
                                     ELSE "record",
                          !.before = IF decoded THEN BucketGet(c.id) ELSE NoData,
                          !.mac = c.mac, !.get = get]
    /\ UNCHANGED <<opened, now, options, jar, saved>>

\* store.New(r, name), called by the request in slot s
New(s, c, fault) ==
    /\ ~sess[s].live
    /\ storeNew(s, c, fault, FALSE)

\* a faulty variant of Get: the registry is not consulted
GetUncached(s, c, fault) == storeNew(s, c, fault, TRUE)

\* store.Get(r, name): sessions.GetRegistry(r).Get(s, name) returns the
\* session and the error the registry of the request holds for the name, and
\* calls store.New and keeps what it returns when it holds none
Get(s, c, fault) ==
    IF sess[s].live
    THEN /\ last' = [NoCall EXCEPT !.op = "Get", !.slot = s, !.id = sess[s].ID,
                        !.err = sess[s].err, !.get = TRUE]
         /\ UNCHANGED <<db, opened, now, options, sess, jar, saved>>
    ELSE storeNew(s, c, fault, TRUE)

\* store.Save(r, w, session), delete path (lines 51-53)
SaveDelete(s, fault) ==
    LET session == sess[s]
        maxAge == options[session.Options]
        del == delete(session, fault)
    IN  /\ session.live
        /\ maxAge < 0
        /\ db' = del.db
        /\ saved' = [i \in IDs |-> IF i = session.ID THEN NoSave ELSE saved[i]]
        /\ last' = [NoCall EXCEPT !.op = "Save", !.slot = s, !.id = session.ID,
                       !.maxAge = maxAge, !.err = ErrNil,
                       !.cookie = NewCookie(NoCookie, maxAge),
                       !.failed = IF del.err # ErrNil THEN "delete" ELSE "none",
                       !.before = BucketGet(session.ID)]
        /\ UNCHANGED <<opened, now, options, sess, jar>>

\* store.Save(r, w, session), persist path (lines 54-68); fresh is the
\* identifier line 57 generates when the session has none
SavePersist(s, fault, marshalOK, encodeOK, fresh) ==
    LET maxAge == options[sess[s].Options]
        session == [sess[s] EXCEPT !.ID = IF @ = EmptyID THEN fresh ELSE @]
        sv == save(session, maxAge, fault, marshalOK)
        encoded == SecureEncode(session.ID)
        err == IF sv.err # ErrNil THEN sv.err
               ELSE IF ~encodeOK THEN ErrEncode ELSE ErrNil
        failed == IF sv.failed # "none" THEN sv.failed
                  ELSE IF ~encodeOK THEN "encode" ELSE "none"
    IN  /\ sess[s].live
        /\ maxAge >= 0
        /\ IF sess[s].ID = EmptyID THEN fresh \in Unused ELSE fresh = EmptyID
        /\ sess' = [sess EXCEPT ![s] = session]
        /\ db' = sv.db
        /\ jar' = IF err = ErrNil THEN jar \cup {encoded} ELSE jar
        /\ saved' = [saved EXCEPT ![session.ID] =
               IF err = ErrNil
               THEN [kind |-> "ok", Values |-> session.Values,
                     until |-> IF maxAge > 0 THEN now + maxAge ELSE 0,
                     wrote |-> sv.failed = "none"]
               ELSE NoSave]
        /\ last' = [NoCall EXCEPT !.op = "Save", !.slot = s, !.id = session.ID,
                       !.maxAge = maxAge, !.err = err,
                       !.cookie = IF err = ErrNil THEN NewCookie(encoded, maxAge)
                                  ELSE NoSetCookie,
                       !.failed = failed,
                       !.before = BucketGet(session.ID)]
        /\ UNCHANGED <<opened, now, options>>

\* store.Close: s.db.Close(), which returns nil also on a closed handle
Close ==
    /\ opened' = FALSE
    /\ last' = [NoCall EXCEPT !.op = "Close"]
    /\ UNCHANGED <<db, now, options, sess, jar, saved>>

\* the caller, between New and Save: session.Values[k] = v, delete(session.Values, k)
SetValues(s, values) ==
    /\ sess[s].live
    /\ values # sess[s].Values
    /\ sess' = [sess EXCEPT ![s].Values = values]
    /\ last' = NoCall
    /\ UNCHANGED <<db, opened, now, options, jar, saved>>

\* the caller: session.Options.MaxAge = maxAge, a write through the pointer
SetMaxAge(s, maxAge) ==
    /\ sess[s].live
    /\ options[sess[s].Options] # maxAge
    /\ options' = [options EXCEPT ![sess[s].Options] = maxAge]
    /\ sess' = [sess EXCEPT ![s].touched = TRUE]
    /\ last' = NoCall
    /\ UNCHANGED <<db, opened, now, jar, saved>>

\* the request ends: its session is garbage
Drop(s) ==
    /\ sess[s].live
    /\ sess' = [sess EXCEPT ![s] = NoSession]
    /\ last' = NoCall
    /\ UNCHANGED <<db, opened, now, options, jar, saved>>

\* time.Now() advances
Tick ==
    /\ now < MaxTime
    /\ now' = now + 1
    /\ last' = NoCall
    /\ UNCHANGED <<db, opened, options, sess, jar, saved>>

\* one step of the run
Step(A) == steps < MaxSteps /\ steps' = steps + 1 /\ A

Next ==
    \/ \E s \in Slots, c \in RequestCookies, fault \in Faults : Step(New(s, c, fault))
    \/ \E s \in Slots, fault \in Faults : Step(SaveDelete(s, fault))
    \/ \E s \in Slots, fault \in Faults, marshalOK \in BOOLEAN, encodeOK \in BOOLEAN,
          fresh \in IDs \cup {EmptyID} : Step(SavePersist(s, fault, marshalOK, encodeOK, fresh))
    \/ Step(Close)
    \/ \E s \in Slots, values \in ValueMaps : Step(SetValues(s, values))
    \/ \E s \in Slots, maxAge \in MaxAges : Step(SetMaxAge(s, maxAge))
    \/ \E s \in Slots : Step(Drop(s))
    \/ Step(Tick)

Spec == Init /\ [][Next]_vars

\* the requests reach their sessions through store.Get
NextGet ==
    \/ \E s \in Slots, c \in RequestCookies, fault \in Faults : Step(Get(s, c, fault))
    \/ \E s \in Slots, fault \in Faults : Step(SaveDelete(s, fault))
    \/ \E s \in Slots, fault \in Faults, marshalOK \in BOOLEAN, encodeOK \in BOOLEAN,
          fresh \in IDs \cup {EmptyID} : Step(SavePersist(s, fault, marshalOK, encodeOK, fresh))
    \/ Step(Close)
    \/ \E s \in Slots, values \in ValueMaps : Step(SetValues(s, values))
    \/ \E s \in Slots, maxAge \in MaxAges : Step(SetMaxAge(s, maxAge))
    \/ \E s \in Slots : Step(Drop(s))
    \/ Step(Tick)

SpecGet == Init /\ [][NextGet]_vars

\* bytes another writer of the bucket file left under a key: a record with no
\* expires_at field, bytes that are no Session message, and a record whose
\* values hold an entry of a type this process has not registered
ForeignKey == "A"

NoExpiresAtData == <<GobEncode(EmptyValues)>>

GarbageData == <<0, 0, 0>>

UndecodableValuesData ==
    ProtoMarshal([Values |-> <<<<"uid", 1>>, <<"role", Unregistered>>>>, ExpiresAt |-> 0])

FoundData == {NoExpiresAtData, GarbageData, UndecodableValuesData}

\* New(config, keyPairs...) on the file of an earlier run: open() keeps what
\* the bucket holds, and a client still has the cookie of that key
InitReopened ==
    /\ db \in {[i \in IDs |-> IF i = ForeignKey THEN d ELSE NoData] : d \in FoundData}
    /\ opened = TRUE
    /\ now = 1
    /\ options = [r \in Refs |-> ConfiguredMaxAge]
    /\ sess = [s \in Slots |-> NoSession]
    /\ jar = {SecureEncode(ForeignKey)}
    /\ saved = [i \in IDs |-> NoSave]
    /\ last = NoCall
    /\ steps = 0

SpecReopened == InitReopened /\ [][Next]_vars

\* ------------------------------------------------------------------ claims
\* what the last call was
IsNewCall == last.op = "New" /\ last.decoded

IsSavePersist == last.op = "Save" /\ last.maxAge >= 0

IsSaveDelete == last.op = "Save" /\ last.maxAge < 0

\* the bytes a Save of the session in slot s puts at this moment
RecordOf(s, maxAge) == ProtoMarshal(NewSession(GobEncode(sess[s].Values), maxAge))

\* C1: Round-trip. When a Save of the persist path with max-age A > 0 returned
\* nil at t0 for a session holding V, and a request carrying its cookie calls
\* New at a time t0 <= t <= t0 + A with no other Save on that identifier in
\* between (the load's transaction not failing), the session New returns has
\* Values = V, IsNew = false and the same identifier.
RoundTrip ==
    (/\ IsNewCall
     /\ last.failed = "none"
     /\ saved[last.id].kind = "ok"
     /\ saved[last.id].until >= now)
    => /\ sess[last.slot].Values = saved[last.id].Values
       /\ ~sess[last.slot].IsNew
       /\ sess[last.slot].ID = last.id

\* C2: Expiration. When a record was saved with max-age A > 0 at t0 and New is
\* called with its cookie at a time t > t0 + A, the session New returns has
\* IsNew = true and empty Values, and, the load's transaction not failing, no
\* bytes are left under that identifier when New returns.
Expiration ==
    (/\ IsNewCall
     /\ saved[last.id].kind = "ok"
     /\ saved[last.id].wrote
     /\ saved[last.id].until > 0
     /\ now > saved[last.id].until)
    => /\ sess[last.slot].IsNew
       /\ sess[last.slot].Values = EmptyValues
       /\ (last.failed = "none" => db[last.id] = NoData)

\* a New that read the expired record of a Save and deleted it
ExpirationWitness ==
    /\ IsNewCall
    /\ last.failed = "none"
    /\ saved[last.id].kind = "ok"
    /\ saved[last.id].wrote
    /\ saved[last.id].until > 0
    /\ now > saved[last.id].until
    /\ last.before # NoData
    /\ db[last.id] = NoData

\* C3: Deletion. A Save of a session whose options have max-age < 0 sets a
\* cookie with an empty value and that negative max-age, puts no bytes under
\* any key, leaves the session (its identifier too) as it was and, its delete
\* transaction not failing, leaves no bytes under the session's identifier,
\* whether or not there were some before.
Deletion ==
    [][(last'.op = "Save" /\ last'.maxAge < 0)
        => /\ last'.cookie = NewCookie(NoCookie, options[sess[last'.slot].Options])
           /\ last'.cookie.MaxAge < 0
           /\ sess' = sess
           /\ \A i \in IDs : db'[i] \in {db[i], NoData}
           /\ \A i \in IDs : i # sess[last'.slot].ID => db'[i] = db[i]
           /\ (last'.failed = "none" /\ sess[last'.slot].ID \in IDs
                  => db'[sess[last'.slot].ID] = NoData)]_vars

\* a delete-path Save that removed the record there was
DeletionWitness ==
    /\ IsSaveDelete
    /\ last.failed = "none"
    /\ last.before # NoData
    /\ db[last.id] = NoData
    /\ last.cookie.set

\* C4: in the persist path of Save, the failure of any step (encoding the
\* values, marshalling the record, the put, encoding the cookie) makes Save
\* return a non-nil error; Save returns nil only if the record was written
\* and the cookie encoded.
SaveFailureReturned ==
    IsSavePersist
    => /\ (last.failed # "none" => last.err # ErrNil)
       /\ (last.err = ErrNil
              => /\ db[last.id] = RecordOf(last.slot, last.maxAge)
                 /\ last.cookie = NewCookie(SecureEncode(last.id), last.maxAge))

\* C5: Persist before cookie. Save sets a cookie carrying identifier I only
\* after the put of the session's record under I has committed in that Save.
PersistBeforeCookie ==
    (/\ last.op = "Save"
     /\ last.cookie.set
     /\ last.cookie.value # NoCookie)
    => /\ last.cookie.value = SecureEncode(last.id)
       /\ db[last.id] = RecordOf(last.slot, last.maxAge)

\* C6: the store's default session options are, after any calls and caller
\* writes, what they were when the store was constructed.
ConfigImmutable == options[ConfigRef] = ConfiguredMaxAge

\* C7: each session has its own copy of the options: while the caller of a
\* session has not written to its options they are the configured ones,
\* whatever the callers of other sessions did, and a Save of it takes the
\* persist path with the configured max-age.
OptionsPerSession ==
    /\ \A s \in Slots :
          sess[s].live /\ ~sess[s].touched
              => options[sess[s].Options] = ConfiguredMaxAge
    /\ (last.op = "Save" /\ ~sess[last.slot].touched
            => last.maxAge = ConfiguredMaxAge /\ last.maxAge >= 0)

\* C8: when the cookie decodes and the load's store transaction fails (the
\* delete of an expired record included), New returns a non-nil error.
LoadFailureReturned ==
    (IsNewCall /\ last.failed = "load") => last.err # ErrNil

\* C9: when the store delete of Save's delete path fails, Save returns a
\* non-nil error and sets no cookie.
DeleteFailureAborts ==
    (IsSaveDelete /\ last.failed = "delete")
    => last.err # ErrNil /\ ~last.cookie.set

\* C10: after Close, each New with a decodable cookie and each Save returns
\* the closed-store error, sets no cookie and leaves the stored bytes as
\* they were.
ClosedStoreFails ==
    (~opened /\ (IsNewCall \/ last.op = "Save"))
    => /\ last.err = ErrClosed
       /\ ~last.cookie.set
       /\ (last.id \in IDs => db[last.id] = last.before)

\* C11: when the request's cookie fails decoding, New returns a session with
\* IsNew = true, no identifier and empty Values together with the decode
\* error, and leaves every stored record as it was.
TamperResistance ==
    [][(last'.op = "New" /\ last'.mac = "forged")
        => /\ last'.err = ErrDecode
           /\ sess'[last'.slot].live
           /\ sess'[last'.slot].IsNew
           /\ sess'[last'.slot].ID = EmptyID
           /\ sess'[last'.slot].Values = EmptyValues
           /\ db' = db]_vars

\* a New was given a forged cookie while every identifier a cookie was issued
\* for has a stored record with values in it
TamperResistanceWitness ==
    /\ last.op = "New"
    /\ last.mac = "forged"
    /\ jar # {}
    /\ \A c \in jar : db[c.id] # NoData /\ db[c.id][1] # << >>

\* C12: a Get of a request whose registry holds the session returns that
\* session and its error without calling New: nothing is loaded and neither
\* the session nor the store changes. A Get of a request whose registry is
\* empty calls New, which loads exactly when the cookie decodes, and leaves
\* the sessions of the other requests alone.
RegistryGet ==
    [][last'.get
        => IF sess[last'.slot].live
           THEN /\ last'.op = "Get"
                /\ last'.err = sess[last'.slot].err
                /\ sess' = sess
                /\ db' = db
           ELSE /\ last'.op = "New"
                /\ last'.decoded = (last'.mac = "valid")
                /\ sess'[last'.slot].live
                /\ \A t \in Slots \ {last'.slot} : sess'[t] = sess[t]]_vars

\* a request got its session from its registry while another request holds
\* its own session of the same identifier, and the stored values are not the
\* ones the returned session holds
RegistryGetWitness ==
    /\ last.op = "Get"
    /\ sess[last.slot].ID \in IDs
    /\ db[sess[last.slot].ID] # NoData
    /\ db[sess[last.slot].ID][1] # GobEncode(sess[last.slot].Values)
    /\ \E t \in Slots \ {last.slot} : sess[t].live /\ sess[t].ID = sess[last.slot].ID

\* C13: a New whose cookie decodes and whose transaction does not fail, on a
\* stored record whose expires_at is 0 or absent and whose values decode,
\* returns nil and the session with IsNew = false and the record's values,
\* at every current time, and leaves the record in the store.
NeverExpires ==
    (/\ IsNewCall
     /\ last.failed # "load"
     /\ last.before # NoData
     /\ Len(last.before) \in {1, 2}
     /\ (Len(last.before) = 2 => last.before[2] = 0)
     /\ GobWellFormed(last.before[1]))
    => /\ last.err = ErrNil
       /\ sess[last.slot].live
       /\ ~sess[last.slot].IsNew
       /\ sess[last.slot].Values = GobDecode(last.before[1], EmptyValues)
       /\ db[last.id] = last.before

\* C14: a Save on the delete path returns nil; when the store holds no record
\* under the session's identifier (it was never saved), or when the call
\* before it was a delete-path Save of the same session whose delete did not
\* fail, the Save leaves the store as it found it.
IdempotentDelete ==
    [][(last'.op = "Save" /\ last'.maxAge < 0)
        => /\ last'.err = ErrNil
           /\ BucketGet(sess[last'.slot].ID) = NoData => db' = db
           /\ (/\ last.op = "Save" /\ last.maxAge < 0
               /\ last.failed = "none"
               /\ last.slot = last'.slot) => db' = db]_vars

\* a delete-path Save of a session that was issued a cookie found no record
\* under its identifier
IdempotentDeleteWitness ==
    /\ last.op = "Save" /\ last.maxAge < 0
    /\ last.id \in IDs
    /\ last.before = NoData
    /\ SecureEncode(last.id) \in jar
    /\ db[last.id] = NoData

\* C15: for a New whose store transaction does not fail, IsNew = false
\* exactly when the cookie decoded, a record exists under the identifier, the
\* record and its values decode and the record has not expired; in every
\* other case IsNew = true and the session's Values are empty, and a record
\* that does not decode is left in the store as it was.
IsNewCharacterisation ==
    (last.op = "New" /\ last.failed \notin {"load", "panic"})
    => LET before == last.before
           decodes == Len(before) = 2 /\ GobWellFormed(before[1])
           hit == /\ last.decoded
                  /\ before # NoData
                  /\ decodes
                  /\ ~(before[2] > 0 /\ before[2] < now)
       IN  /\ sess[last.slot].live
           /\ sess[last.slot].IsNew = ~hit
           /\ sess[last.slot].IsNew => sess[last.slot].Values = EmptyValues
           /\ (last.decoded /\ before # NoData /\ ~decodes) => db[last.id] = before

\* C16: when the cookie encoding of Save's persist path fails, Save returns
\* the encoding error and sets no cookie, the record the Save has put stays
\* in the store under the session's identifier, and the session keeps that
\* identifier.
OrphanOnEncodeFailure ==
    (IsSavePersist /\ last.err = ErrEncode)
    => /\ ~last.cookie.set
       /\ last.id \in IDs
       /\ sess[last.slot].ID = last.id
       /\ db[last.id] # NoData
       /\ db[last.id] = RecordOf(last.slot, last.maxAge)

\* C17: after a persist-path Save whose put committed, the store holds under
\* the identifier exactly the record of that Save (its values and its
\* expires_at), whatever record another Save of the same identifier had put
\* there before: the last put wins whole.
LastWriteWins ==
    (IsSavePersist /\ last.failed \in {"none", "encode"} /\ last.before # NoData)
    => /\ db[last.id][1] = GobEncode(sess[last.slot].Values)
       /\ db[last.id][2] = (IF last.maxAge > 0 THEN now + last.maxAge ELSE 0)
       /\ Len(db[last.id]) = 2

\* two requests hold sessions of one identifier; the Save of one has
\* replaced the record the other one's values were stored in
LastWriteWinsWitness ==
    /\ IsSavePersist
    /\ last.failed = "none"
    /\ last.before # NoData
    /\ last.before[1] # db[last.id][1]
    /\ \E t \in Slots \ {last.slot} :
          /\ sess[t].live
          /\ sess[t].ID = last.id
          /\ last.before[1] = GobEncode(sess[t].Values)

\* C18: Save generates an identifier only for a session that has none and
\* keeps a non-empty identifier; New and Save change no record but the one
\* under the identifier of the session of the call.
IdentifierKeying ==
    [][(last'.op \in {"New", "Save"})
        => /\ \A i \in IDs \ {last'.id} : db'[i] = db[i]
           /\ last'.id = sess'[last'.slot].ID
           /\ last'.op = "Save" =>
                 /\ sess[last'.slot].ID # EmptyID => sess'[last'.slot].ID = sess[last'.slot].ID
                 /\ (sess[last'.slot].ID = EmptyID /\ last'.maxAge >= 0)
                       => sess'[last'.slot].ID \in IDs
                 /\ (sess[last'.slot].ID = EmptyID /\ last'.maxAge < 0)
                       => sess'[last'.slot].ID = EmptyID]_vars

\* a session that had its identifier was saved again while the store holds
\* a record under another identifier
IdentifierKeyingWitness ==
    /\ IsSavePersist
    /\ last.failed = "none"
    /\ last.before # NoData
    /\ \E i \in IDs \ {last.id} : db[i] # NoData

\* C19: the only change a New makes to the store is the removal of the
\* record under the session's identifier, and only of a record that is
\* expired in the state the load's transaction runs in: a record whose
\* expires_at is 0 or not before the current time, as the last Save of the
\* identifier committed it, is never removed by a load.
AtomicExpiry ==
    [][(last'.op = "New")
        => \A i \in IDs :
              /\ db'[i] # db[i]
                    => /\ i = last'.id
                       /\ db'[i] = NoData
                       /\ Len(db[i]) = 2
                       /\ db[i][2] > 0
                       /\ db[i][2] < now
              /\ (/\ saved[i].kind = "ok" /\ saved[i].wrote
                  /\ (saved[i].until = 0 \/ saved[i].until >= now))
                    => db'[i] = db[i]]_vars

\* a load removed the expired record of an identifier that the session of
\* another request holds
AtomicExpiryWitness ==
    /\ IsNewCall
    /\ last.failed = "none"
    /\ last.before # NoData
    /\ db[last.id] = NoData
    /\ \E t \in Slots \ {last.slot} : sess[t].live /\ sess[t].ID = last.id
====
